---- MODULE Spec2Model ----
(***************************************************************************)
(* A model of scripts/download_video.py: one run of main(), the download   *)
(* step download_with_ytdlp() and the probe step get_video_resolution().   *)
(*                                                                         *)
(* Text is modelled as a sequence of one-character strings wherever the    *)
(* code looks inside it (the prober's output, the first line of the cookie *)
(* file) and as a sequence of chunks where the code only splits it at "/"  *)
(* or passes it on (paths, command-line tokens).                           *)
(*                                                                         *)
(* The environment of a run is the file system at the output path, the     *)
(* state of the output directory, the cookie file, and what the two        *)
(* external programs do when they are started.                             *)
(***************************************************************************)
EXTENDS Integers, Sequences, FiniteSets, TLC

VARIABLES
    pc,           \* position of the run in main()
    argv,         \* sys.argv
    output_path,  \* main's local output_path (argv[4] once unpacked)
    dirState,     \* the directory os.path.dirname(output_path): exists | creatable | denied
    dirCreated,   \* os.makedirs created a directory during this run
    preFs,        \* what was at the output path when the process started
    fs,           \* what is at the output path now
    ytdlp,        \* what the downloader does when it is started
    cookie,       \* the cookie file seen by download_with_ytdlp
    cmd,          \* the downloader command line built by download_with_ytdlp
    dlResult,     \* the downloader invocation of this run
    probe,        \* the prober invocation of this run
    resolution,   \* main's local resolution
    stdout,       \* the records printed to standard output, in order
    stderr,       \* what was printed to standard error, in order
    raised,       \* the errors raised after argument unpacking, in order
    err,          \* the exception bound to e in main's except clause
    exitStatus    \* the exit status of the process (NoExit while running)

vars == <<pc, argv, output_path, dirState, dirCreated, preFs, fs, ytdlp, cookie,
          cmd, dlResult, probe, resolution, stdout, stderr, raised, err, exitStatus>>

----------------------------------------------------------------------------
(* Bounds of the model *)

\* the largest number of positional arguments tried
MaxArgs == 5
\* the largest height the prober prints in the resolution specification
HMax == 1100
\* heights down to -NegH are printed in the resolution specification
NegH == 20
\* the longest arbitrary prober output tried inside a whole run
MaxText == 2

(* Program constants *)

\* len(sys.argv) < 5
ARGV_MIN == 5
\* os.path.getsize(output_path) < 1000
MIN_SIZE == 1000
H1080 == 1080
H720 == 720
H480 == 480

NoExit == 0 - 1

----------------------------------------------------------------------------
(* Text *)

Digits == <<"0", "1", "2", "3", "4", "5", "6", "7", "8", "9">>

DigitSet == {Digits[i] : i \in 1..10}

Whitespace == {" ", "\n"}

DigitVal(c) == (CHOOSE i \in 1..10 : Digits[i] = c) - 1

\* the decimal digits of a natural number
RECURSIVE NatStr(_)
NatStr(n) ==
    IF n < 10 THEN <<Digits[n + 1]>>
    ELSE NatStr(n \div 10) \o <<Digits[(n % 10) + 1]>>

\* f"{height}"
IntStr(h) == IF h < 0 THEN <<"-">> \o NatStr(0 - h) ELSE NatStr(h)

RECURSIVE LStrip(_)
LStrip(s) ==
    IF s # <<>> /\ Head(s) \in Whitespace THEN LStrip(Tail(s)) ELSE s

RECURSIVE RStrip(_)
RStrip(s) ==
    IF s # <<>> /\ s[Len(s)] \in Whitespace
    THEN RStrip(SubSeq(s, 1, Len(s) - 1)) ELSE s

\* str.strip()
Strip(s) == RStrip(LStrip(s))

\* str.startswith(prefix)
StartsWith(s, prefix) ==
    /\ Len(s) >= Len(prefix)
    /\ SubSeq(s, 1, Len(prefix)) = prefix

\* the value of a string of digits, accumulated left to right
RECURSIVE DigitsValue(_, _)
DigitsValue(s, acc) ==
    IF s = <<>> THEN acc
    ELSE DigitsValue(Tail(s), 10 * acc + DigitVal(Head(s)))

\* int(text): ok is FALSE where int raises ValueError
ParseInt(text) ==
    LET signed == text # <<>> /\ Head(text) \in {"-", "+"}
        body == IF signed THEN Tail(text) ELSE text
        good == body # <<>> /\ \A i \in 1..Len(body) : body[i] \in DigitSet
    IN  IF ~good THEN [ok |-> FALSE, val |-> 0]
        ELSE [ok |-> TRUE,
              val |-> IF signed /\ Head(text) = "-"
                      THEN 0 - DigitsValue(body, 0)
                      ELSE DigitsValue(body, 0)]

\* all sequences over alphabet of length at most n
RECURSIVE TextsUpTo(_, _)
TextsUpTo(alphabet, n) ==
    IF n = 0 THEN {<<>>}
    ELSE LET shorter == TextsUpTo(alphabet, n - 1)
         IN  shorter \cup {Append(t, c) : t \in shorter, c \in alphabet}

----------------------------------------------------------------------------
(* Paths and the file system at the output path *)

URL == <<"https://youtu.be/x">>

Paths == { <<"v.mp4">>, <<"out", "/", "v.mp4">> }

\* os.path.dirname(path): what precedes the last "/"
RECURSIVE dirname(_)
dirname(path) ==
    IF path = <<>> THEN <<>>
    ELSE IF path[Len(path)] = "/" THEN SubSeq(path, 1, Len(path) - 1)
    ELSE dirname(SubSeq(path, 1, Len(path) - 1))

Absent == [kind |-> "absent", size |-> 0, origin |-> "none"]

File(size, origin) == [kind |-> "file", size |-> size, origin |-> origin]

Directory == [kind |-> "dir", size |-> 4096, origin |-> "old"]

Sizes == {0, MIN_SIZE - 1, MIN_SIZE, MIN_SIZE + 1}

\* what may be at the output path before the run
PreStates == {Absent, Directory} \cup {File(s, "old") : s \in Sizes}

\* os.path.exists(output_path)
exists(f) == f.kind # "absent"

\* os.path.getsize(output_path)
getsize(f) == f.size

\* os.remove(output_path): TRUE is a removal, FALSE an OSError.  A directory
\* is never removed by os.remove; a file may be refused by the system.
RemoveOutcomes(f) == IF f.kind = "dir" THEN {FALSE} ELSE {TRUE, FALSE}

----------------------------------------------------------------------------
(* The downloader, the cookie file and the command line *)

\* What the downloader does once started: launch is FALSE when subprocess.run
\* cannot start it (the executable is missing); otherwise it exits with rc
\* and, when writes is TRUE, leaves a file of the given size at the output path.
YtdlpBehaviours ==
    {[launch |-> FALSE, rc |-> 1, writes |-> FALSE, size |-> 0]}
    \cup {[launch |-> TRUE, rc |-> r, writes |-> FALSE, size |-> 0] : r \in {0, 1}}
    \cup {[launch |-> TRUE, rc |-> r, writes |-> TRUE, size |-> s] :
             r \in {0, 1}, s \in Sizes}

YTDLP_PATH == <<"yt-dlp">>

FORMAT == <<"best[ext=mp4][vcodec^=avc1]/best[ext=mp4]/mp4">>

cookies_path == <<"scripts", "/", "cookies.txt">>

\* "# Netscape HTTP Cookie File"
NETSCAPE_HEADER ==
    <<"#", " ", "N", "e", "t", "s", "c", "a", "p", "e", " ",
      "H", "T", "T", "P", " ", "C", "o", "o", "k", "i", "e", " ",
      "F", "i", "l", "e">>

\* first lines a cookie file may have, as f.readline() returns them
CookieLines ==
    { NETSCAPE_HEADER \o <<"\n">>,
      NETSCAPE_HEADER,
      <<" ">> \o NETSCAPE_HEADER \o <<" ", "\n">>,
      NETSCAPE_HEADER \o <<"s", "\n">>,
      NETSCAPE_HEADER \o <<" ", "v", "2", "\n">>,
      SubSeq(NETSCAPE_HEADER, 1, Len(NETSCAPE_HEADER) - 1) \o <<"\n">>,
      <<"#", " ", "H", "T", "T", "P", "\n">>,
      <<"\n">>,
      <<>> }

CookieFiles ==
    {[present |-> FALSE, line |-> <<>>]}
    \cup {[present |-> TRUE, line |-> l] : l \in CookieLines}

\* first_line.startswith("# Netscape HTTP Cookie File"), first_line stripped
ValidCookieLineExact(line) == Strip(line) = NETSCAPE_HEADER

ValidCookieLine(line) == StartsWith(Strip(line), NETSCAPE_HEADER)

\* list.insert(-1, x): x goes before the last element
InsertBeforeLast(s, x) ==
    SubSeq(s, 1, Len(s) - 1) \o <<x>> \o <<s[Len(s)]>>

\* the command line download_with_ytdlp builds
BuildCmd(url, path, ck) ==
    LET base == <<YTDLP_PATH, <<"-f">>, FORMAT, <<"-o">>, path, url>>
    IN  IF ck.present /\ ValidCookieLine(ck.line)
        THEN InsertBeforeLast(InsertBeforeLast(base, <<"--cookies">>), cookies_path)
        ELSE base

COOKIE_WARNING == "cookies.txt exists but is not a valid Netscape format file, ignoring."

\* what the cookie check prints to standard error
CookieStderr(ck) ==
    IF ck.present /\ ~ValidCookieLine(ck.line) THEN <<COOKIE_WARNING>> ELSE <<>>

NoDownload == [started |-> FALSE, returned |-> FALSE, rc |-> 0, pre |-> "none"]

----------------------------------------------------------------------------
(* The prober and get_video_resolution *)

Unknown == <<"u", "n", "k", "n", "o", "w", "n">>

\* the label of an integer height
ClassifyHeightStrict(height) ==
    IF height > H1080 THEN <<"1", "0", "8", "0", "p">>
    ELSE IF height > H720 THEN <<"7", "2", "0", "p">>
    ELSE IF height > H480 THEN <<"4", "8", "0", "p">>
    ELSE IntStr(height) \o <<"p">>

ClassifyHeight(height) ==
    IF height >= H1080 THEN <<"1", "0", "8", "0", "p">>
    ELSE IF height >= H720 THEN <<"7", "2", "0", "p">>
    ELSE IF height >= H480 THEN <<"4", "8", "0", "p">>
    ELSE IntStr(height) \o <<"p">>

\* get_video_resolution with its try/except removed: errors propagate
get_video_resolution_unguarded(p) ==
    IF ~p.launch THEN [raised |-> TRUE, err |-> "FileNotFoundError: ffprobe", label |-> <<>>]
    ELSE IF p.rc = 0
    THEN LET r == ParseInt(Strip(p.out))
         IN  IF r.ok THEN [raised |-> FALSE, err |-> "", label |-> ClassifyHeight(r.val)]
             ELSE [raised |-> TRUE, err |-> "ValueError: invalid literal for int()", label |-> <<>>]
    ELSE [raised |-> FALSE, err |-> "", label |-> Unknown]

\* get_video_resolution(output_path), given what the prober does: the bare
\* except turns a failure to start the prober and a ValueError of int() into
\* "unknown", so raised is always FALSE
get_video_resolution(p) ==
    IF ~p.launch THEN [raised |-> FALSE, err |-> "", label |-> Unknown]
    ELSE IF p.rc = 0
    THEN LET r == ParseInt(Strip(p.out))
         IN  IF r.ok THEN [raised |-> FALSE, err |-> "", label |-> ClassifyHeight(r.val)]
             ELSE [raised |-> FALSE, err |-> "", label |-> Unknown]
    ELSE [raised |-> FALSE, err |-> "", label |-> Unknown]

\* characters of the prober's output: digits, a sign, the csv separator, newline
ProbeAlphabet == DigitSet \cup {"-", "x", "\n"}

NoProbe == [called |-> FALSE, launch |-> FALSE, rc |-> 0, out |-> <<>>, src |-> "none", h |-> 0]

\* the prober cannot be started
ProbeLaunchFailure ==
    [called |-> TRUE, launch |-> FALSE, rc |-> 0, out |-> <<>>, src |-> "none", h |-> 0]

\* the prober exits rc having printed text
ProbeText(rc, text) ==
    [called |-> TRUE, launch |-> TRUE, rc |-> rc, out |-> text, src |-> "text", h |-> 0]

\* the prober exits 0 having printed the integer h and the given line end
ProbeInt(h, eol) ==
    [called |-> TRUE, launch |-> TRUE, rc |-> 0, out |-> IntStr(h) \o eol, src |-> "int", h |-> h]

\* heights around every threshold
HeightSamples == {0 - 1, 0, 360, H480 - 1, H480, H720 - 1, H720, H1080 - 1, H1080, H1080 + 1, 2160}

\* what the prober may do inside a whole run
ProbeOutcomes ==
    {ProbeLaunchFailure}
    \cup {ProbeText(1, t) : t \in {<<>>, <<"7", "2", "0", "\n">>}}
    \cup {ProbeText(0, t) : t \in TextsUpTo(ProbeAlphabet, MaxText)}
    \cup {ProbeText(0, t) : t \in {<<"N", "/", "A", "\n">>, <<"7", "2", "0", "x", "\n">>}}
    \cup {ProbeInt(h, eol) : h \in HeightSamples, eol \in {<<>>, <<"\n">>}}

\* what the prober may do in the resolution specification
ResolutionInputs ==
    {ProbeLaunchFailure, ProbeText(1, <<"7", "2", "0", "\n">>), ProbeText(0, <<"x">>)}
    \cup {ProbeInt(h, eol) : h \in (0 - NegH)..HMax, eol \in {<<>>, <<"\n">>}}

----------------------------------------------------------------------------
(* Standard output and process exit *)

USAGE == "Usage: python download_video.py <url> <start_time> <end_time> <output_path>"

INVALID == "yt-dlp failed or produced invalid file. See logs above."

\* json.dumps({"success": False, "error": message})
FailureRecord(message) == [success |-> FALSE, error |-> message]

\* json.dumps({"success": True, "resolution": ..., "output_path": ...})
SuccessRecord(label, path) ==
    [success |-> TRUE, resolution |-> label, output_path |-> path]

\* sys.argv of an invocation with n positional arguments, the fourth being path
Argv(n, path) ==
    LET full == <<<<"download_video.py">>, URL, <<"0">>, <<"10">>, path>>
                \o [i \in 1..(MaxArgs - 4) |-> <<"extra">>]
    IN  SubSeq(full, 1, n + 1)

\* sys.argv[1:5]
ArgSlice(av) == SubSeq(av, 2, IF Len(av) < 5 THEN Len(av) ELSE 5)

\* len(sys.argv) < 5
TooFewArgsOffByOne(av) == Len(av) < ARGV_MIN - 1

TooFewArgs(av) == Len(av) < ARGV_MIN

\* the validation of main: the download is rejected
DownloadInvalidIgnoringExit(success, f) ==
    \/ ~exists(f)
    \/ getsize(f) < MIN_SIZE

DownloadInvalid(success, f) ==
    \/ ~success
    \/ ~exists(f)
    \/ getsize(f) < MIN_SIZE

----------------------------------------------------------------------------
(* The run of main() *)

Init ==
    /\ pc = "start"
    /\ argv \in {Argv(n, p) : n \in 0..MaxArgs, p \in Paths}
    /\ dirState \in {"exists", "creatable", "denied"}
    /\ preFs \in PreStates
    /\ dirState # "exists" => preFs = Absent
    /\ fs = preFs
    /\ ytdlp \in YtdlpBehaviours
    /\ output_path = <<>>
    /\ dirCreated = FALSE
    /\ cookie = [present |-> FALSE, line |-> <<>>]
    /\ cmd = <<>>
    /\ dlResult = NoDownload
    /\ probe = NoProbe
    /\ resolution = <<>>
    /\ stdout = <<>>
    /\ stderr = <<>>
    /\ raised = <<>>
    /\ err = ""
    /\ exitStatus = NoExit

\* an exception nothing catches: the interpreter prints the traceback to
\* standard error and the process exits with status 1
Uncaught(e) ==
    /\ pc' = "done"
    /\ exitStatus' = 1
    /\ stderr' = Append(stderr, "Traceback")
    /\ raised' = Append(raised, e)

\* an exception raised inside main's try block
Caught(e) ==
    /\ pc' = "except"
    /\ err' = e
    /\ raised' = Append(raised, e)

\* main, the argument check and the unpacking
CheckArgs ==
    /\ pc = "start"
    /\ IF TooFewArgs(argv)
       THEN /\ stdout' = Append(stdout, FailureRecord(USAGE))
            /\ exitStatus' = 1
            /\ pc' = "done"
            /\ UNCHANGED <<output_path, stderr, raised>>
       ELSE IF Len(ArgSlice(argv)) # 4
       THEN /\ Uncaught("ValueError: not enough values to unpack")
            /\ UNCHANGED <<output_path, stdout>>
       ELSE /\ output_path' = ArgSlice(argv)[4]
            /\ pc' = "makedirs"
            /\ UNCHANGED <<stdout, stderr, raised, exitStatus>>
    /\ UNCHANGED <<argv, dirState, dirCreated, preFs, fs, ytdlp, cookie, cmd,
                   dlResult, probe, resolution, err>>

\* main: os.makedirs(os.path.dirname(output_path), exist_ok=True), before the try
MakeDirs ==
    /\ pc = "makedirs"
    /\ IF dirname(output_path) = <<>>
       THEN /\ Uncaught("FileNotFoundError: ''")
            /\ UNCHANGED <<dirState, dirCreated>>
       ELSE IF dirState = "denied"
       THEN /\ Uncaught("PermissionError: makedirs")
            /\ UNCHANGED <<dirState, dirCreated>>
       ELSE /\ dirState' = "exists"
            /\ dirCreated' = (dirState = "creatable")
            /\ pc' = "remove_stale"
            /\ UNCHANGED <<stderr, raised, exitStatus>>
    /\ UNCHANGED <<argv, output_path, preFs, fs, ytdlp, cookie, cmd, dlResult,
                   probe, resolution, stdout, err>>

\* download_with_ytdlp without its removal of the file already there
RemoveStaleSkipped ==
    /\ pc = "remove_stale"
    /\ pc' = "build_cmd"
    /\ UNCHANGED <<argv, output_path, dirState, dirCreated, preFs, fs, ytdlp, cookie,
                   cmd, dlResult, probe, resolution, stdout, stderr, raised, err,
                   exitStatus>>

\* download_with_ytdlp: the file already at the output path is removed
RemoveStale ==
    /\ pc = "remove_stale"
    /\ IF exists(fs)
       THEN \E removed \in RemoveOutcomes(fs) :
              IF removed
              THEN /\ fs' = Absent
                   /\ pc' = "build_cmd"
                   /\ UNCHANGED <<raised, err>>
              ELSE /\ Caught("OSError: remove")
                   /\ UNCHANGED fs
       ELSE /\ pc' = "build_cmd"
            /\ UNCHANGED <<fs, raised, err>>
    /\ UNCHANGED <<argv, output_path, dirState, dirCreated, preFs, ytdlp, cookie,
                   cmd, dlResult, probe, resolution, stdout, stderr, exitStatus>>

\* download_with_ytdlp: the command line and the cookie file
BuildCommand ==
    /\ pc = "build_cmd"
    /\ \E ck \in CookieFiles :
         /\ cookie' = ck
         /\ cmd' = BuildCmd(URL, output_path, ck)
         /\ stderr' = stderr \o CookieStderr(ck)
    /\ pc' = "run_ytdlp"
    /\ UNCHANGED <<argv, output_path, dirState, dirCreated, preFs, fs, ytdlp,
                   dlResult, probe, resolution, stdout, raised, err, exitStatus>>

\* download_with_ytdlp: subprocess.run(cmd) and the logging around it
RunYtdlp ==
    /\ pc = "run_ytdlp"
    /\ IF ~ytdlp.launch
       THEN /\ Caught("FileNotFoundError: yt-dlp")
            /\ stderr' = Append(stderr, "Running command:")
            /\ UNCHANGED <<fs, dlResult>>
       ELSE /\ dlResult' = [started |-> TRUE, returned |-> TRUE, rc |-> ytdlp.rc,
                            pre |-> fs.kind]
            /\ fs' = IF ytdlp.writes THEN File(ytdlp.size, "run") ELSE fs
            /\ stderr' = stderr \o <<"Running command:", "yt-dlp stdout:", "yt-dlp stderr:">>
            /\ pc' = "validate"
            /\ UNCHANGED <<raised, err>>
    /\ UNCHANGED <<argv, output_path, dirState, dirCreated, preFs, ytdlp, cookie,
                   cmd, probe, resolution, stdout, exitStatus>>

\* main: the check of the downloaded file, and the failure path after it
Validate ==
    /\ pc = "validate"
    /\ IF DownloadInvalid(dlResult.rc = 0, fs)
       THEN /\ stdout' = Append(stdout, FailureRecord(INVALID))
            /\ IF exists(fs)
               THEN \E removed \in RemoveOutcomes(fs) :
                      IF removed
                      THEN /\ fs' = Absent
                           /\ exitStatus' = 1
                           /\ pc' = "done"
                           /\ UNCHANGED <<raised, err>>
                      ELSE /\ Caught("OSError: remove")
                           /\ UNCHANGED <<fs, exitStatus>>
               ELSE /\ exitStatus' = 1
                    /\ pc' = "done"
                    /\ UNCHANGED <<fs, raised, err>>
       ELSE /\ pc' = "probe"
            /\ UNCHANGED <<stdout, fs, raised, err, exitStatus>>
    /\ UNCHANGED <<argv, output_path, dirState, dirCreated, preFs, ytdlp, cookie,
                   cmd, dlResult, probe, resolution, stderr>>

\* main: the probe and the success record
Probe ==
    /\ pc = "probe"
    /\ \E p \in ProbeOutcomes :
         /\ probe' = p
         /\ LET r == get_video_resolution(p)
            IN  IF r.raised
                THEN /\ Caught(r.err)
                     /\ UNCHANGED <<resolution, stdout, exitStatus>>
                ELSE /\ resolution' = r.label
                     /\ stdout' = Append(stdout, SuccessRecord(r.label, output_path))
                     /\ exitStatus' = 0
                     /\ pc' = "done"
                     /\ UNCHANGED <<raised, err>>
    /\ UNCHANGED <<argv, output_path, dirState, dirCreated, preFs, fs, ytdlp,
                   cookie, cmd, dlResult, stderr>>

\* main: except Exception as e
HandleException ==
    /\ pc = "except"
    /\ stdout' = Append(stdout, FailureRecord(err))
    /\ IF exists(fs)
       THEN \E removed \in RemoveOutcomes(fs) :
              IF removed
              THEN /\ fs' = Absent
                   /\ exitStatus' = 1
                   /\ pc' = "done"
                   /\ UNCHANGED <<stderr, raised>>
              ELSE /\ Uncaught("OSError: remove")
                   /\ UNCHANGED fs
       ELSE /\ exitStatus' = 1
            /\ pc' = "done"
            /\ UNCHANGED <<fs, stderr, raised>>
    /\ UNCHANGED <<argv, output_path, dirState, dirCreated, preFs, ytdlp, cookie,
                   cmd, dlResult, probe, resolution, err>>

Next ==
    \/ CheckArgs
    \/ MakeDirs
    \/ RemoveStale
    \/ BuildCommand
    \/ RunYtdlp
    \/ Validate
    \/ Probe
    \/ HandleException

Spec == Init /\ [][Next]_vars

----------------------------------------------------------------------------
(* get_video_resolution alone, over a range of printed heights *)

InitRes ==
    /\ pc = "res_call"
    /\ probe \in ResolutionInputs
    /\ argv = Argv(4, <<"out", "/", "v.mp4">>)
    /\ output_path = <<"out", "/", "v.mp4">>
    /\ dirState = "exists"
    /\ dirCreated = FALSE
    /\ preFs = Absent
    /\ fs = File(MIN_SIZE, "run")
    /\ ytdlp = [launch |-> TRUE, rc |-> 0, writes |-> TRUE, size |-> MIN_SIZE]
    /\ cookie = [present |-> FALSE, line |-> <<>>]
    /\ cmd = <<>>
    /\ dlResult = NoDownload
    /\ resolution = <<>>
    /\ stdout = <<>>
    /\ stderr = <<>>
    /\ raised = <<>>
    /\ err = ""
    /\ exitStatus = NoExit

\* a call of get_video_resolution(output_path)
Resolve ==
    /\ pc = "res_call"
    /\ resolution' = get_video_resolution(probe).label
    /\ pc' = "res_done"
    /\ UNCHANGED <<argv, output_path, dirState, dirCreated, preFs, fs, ytdlp, cookie,
                   cmd, dlResult, probe, stdout, stderr, raised, err, exitStatus>>

NextRes == Resolve

SpecRes == InitRes /\ [][NextRes]_vars

----------------------------------------------------------------------------
(* Vocabulary of the properties *)

Done == pc = "done"

\* the records on standard output that report success
SuccessRecords == {i \in DOMAIN stdout : stdout[i].success}

\* standard output holds exactly one record, a failure
OneFailureRecord == Len(stdout) = 1 /\ ~stdout[1].success

\* standard output holds exactly one record, a success
OneSuccessRecord == Len(stdout) = 1 /\ stdout[1].success

\* the command line passes the cookie file: --cookies <file> before the URL
HasCookieArg(c) ==
    \E i \in 1..(Len(c) - 2) : c[i] = <<"--cookies">> /\ c[i + 1] = cookies_path

\* the cookie warning was printed to standard error
CookieWarned == \E i \in DOMAIN stderr : stderr[i] = COOKIE_WARNING

\* a line without its line terminator
LineText(line) ==
    IF line # <<>> /\ line[Len(line)] = "\n" THEN SubSeq(line, 1, Len(line) - 1) ELSE line

\* text that reads as an integer: optional sign, then one or more digits,
\* possibly surrounded by spaces or newlines
LooksInteger(text) ==
    LET t == Strip(text)
        from == IF t # <<>> /\ t[1] \in {"-", "+"} THEN 2 ELSE 1
    IN  /\ Len(t) >= from
        /\ \A i \in from..Len(t) : t[i] \in DigitSet

\* the downloader of this run ran, exited 0 and left a file of at least 1000 bytes
DownloadPassed ==
    /\ dlResult.returned
    /\ dlResult.rc = 0
    /\ ytdlp.writes
    /\ ytdlp.size >= 1000

\* the label the thresholds give an integer height
ExpectedLabel(h) ==
    IF h >= 1080 THEN <<"1", "0", "8", "0", "p">>
    ELSE IF 720 <= h /\ h < 1080 THEN <<"7", "2", "0", "p">>
    ELSE IF 480 <= h /\ h < 720 THEN <<"4", "8", "0", "p">>
    ELSE IntStr(h) \o <<"p">>

----------------------------------------------------------------------------
(* Properties *)

\* C1: every terminated run of main has written exactly one record to
\* standard output.
C1_ExactlyOneRecord == Done => Len(stdout) = 1

\* C2: whenever standard output holds a success record, the output path is
\* an existing file of at least 1000 bytes and the downloader of this run
\* returned exit status 0.
C2_SuccessMeansValidFile ==
    SuccessRecords # {} =>
        /\ fs.kind = "file"
        /\ fs.size >= 1000
        /\ dlResult.returned
        /\ dlResult.rc = 0

C2_Witness ==
    /\ Done
    /\ OneSuccessRecord
    /\ fs = File(1000, "run")
    /\ dlResult.rc = 0

\* C3: an invocation with four positional arguments whose downloader exits 0
\* and writes a file of at least 1000 bytes ends with exit status 0 and one
\* success record naming the fourth argument, for any output path (the
\* system refusing neither the output directory nor a removal).
C3_GoodDownloadSucceeds ==
    ( /\ Done
      /\ Len(argv) = 5
      /\ ytdlp.launch /\ ytdlp.rc = 0 /\ ytdlp.writes /\ ytdlp.size >= 1000
      /\ dirState # "denied"
      /\ \A i \in DOMAIN raised : raised[i] # "OSError: remove" )
    => /\ exitStatus = 0
       /\ OneSuccessRecord
       /\ stdout[1].output_path = argv[5]

\* C4: a run whose downloader exited non-zero, or exited 0 leaving no file or
\* a file under 1000 bytes, ends with exit status 1, one failure record and
\* nothing at the output path.
C4_BadDownloadFailsClean ==
    ( /\ Done
      /\ dlResult.returned
      /\ \/ dlResult.rc # 0
         \/ ~ytdlp.writes
         \/ ytdlp.size < 1000 )
    => /\ exitStatus = 1
       /\ OneFailureRecord
       /\ fs.kind = "absent"

\* C5: a run in which an error was raised after the argument check ends with
\* exit status 1, a failure record carrying the text of that error on
\* standard output, and no file at the output path.
C5_ErrorsCaughtAtTopLevel ==
    (Done /\ raised # <<>>)
    => /\ exitStatus = 1
       /\ \E i \in DOMAIN stdout : ~stdout[i].success /\ stdout[i].error = raised[1]
       /\ fs.kind # "file"

\* C6: a run whose download and size validation passed ends with exit status
\* 0 and one success record whatever the prober did, and the resolution is
\* "unknown" when the prober could not be started, exited non-zero or
\* printed text that is not an integer.
C6_ProbeCannotFailRun ==
    (Done /\ DownloadPassed)
    => /\ exitStatus = 0
       /\ OneSuccessRecord
       /\ probe.called
       /\ (~probe.launch \/ probe.rc # 0 \/ ~LooksInteger(probe.out))
              => stdout[1].resolution = Unknown

C6_Witness ==
    /\ Done
    /\ DownloadPassed
    /\ probe.called
    /\ probe.launch
    /\ probe.rc = 0
    /\ probe.out = <<"7", "x">>
    /\ OneSuccessRecord
    /\ stdout[1].resolution = Unknown
    /\ exitStatus = 0

\* C7: an invocation with fewer than four positional arguments ends with exit
\* status 1 and one usage failure record, having started neither the
\* downloader nor the prober and having created or deleted nothing.
C7_UsageErrorTouchesNothing ==
    (Done /\ Len(argv) < 5)
    => /\ exitStatus = 1
       /\ OneFailureRecord
       /\ stdout[1].error = USAGE
       /\ ~dlResult.started
       /\ ~probe.called
       /\ fs = preFs
       /\ ~dirCreated

C7_Witness ==
    /\ Done
    /\ Len(argv) = 4
    /\ preFs = File(1000, "old")
    /\ fs = preFs
    /\ OneFailureRecord
    /\ exitStatus = 1

\* C8: when the prober exits 0 having printed the integer h, the label is
\* "1080p" for h >= 1080, "720p" for 720 <= h < 1080, "480p" for
\* 480 <= h < 720 and otherwise the decimal value of h followed by "p".
C8_LabelIsFunctionOfHeight ==
    (pc = "res_done" /\ probe.src = "int")
    => /\ resolution = ExpectedLabel(probe.h)
       /\ probe.h = 1079 => resolution = <<"7", "2", "0", "p">>
       /\ probe.h = 719 => resolution = <<"4", "8", "0", "p">>
       /\ probe.h = 479 => resolution = <<"4", "7", "9", "p">>
       /\ probe.h = 0 => resolution = <<"0", "p">>
       /\ probe.h = 0 - 5 => resolution = <<"-", "5", "p">>

C8_Witness ==
    /\ pc = "res_done"
    /\ probe.src = "int"
    /\ probe.h = 1080
    /\ probe.out = <<"1", "0", "8", "0", "\n">>
    /\ resolution = <<"1", "0", "8", "0", "p">>

\* C9 as stated: the cookie argument is on the command line only when the
\* cookie file is present and its first line is exactly the header, and in
\* every other case a warning is printed and the command has no cookie argument.
C9_ExactHeaderOrWarning ==
    cmd # <<>> =>
        LET exact == cookie.present /\ LineText(cookie.line) = NETSCAPE_HEADER
        IN  /\ HasCookieArg(cmd) => exact
            /\ ~exact => (CookieWarned /\ ~HasCookieArg(cmd))

\* C9 as amended: the cookie argument is on the command line exactly when
\* the cookie file is present and its first line, stripped of surrounding
\* whitespace, starts with the header; the warning is printed exactly when
\* the file is present and that is not so (never when the file is absent).
C9_HeaderPrefixOrSilentSkip ==
    cmd # <<>> =>
        LET prefixed == cookie.present /\ StartsWith(Strip(cookie.line), NETSCAPE_HEADER)
        IN  /\ HasCookieArg(cmd) <=> prefixed
            /\ CookieWarned <=> (cookie.present /\ ~prefixed)
            /\ cmd[Len(cmd)] = URL

C9_Witness ==
    /\ dlResult.started
    /\ cookie.present
    /\ cookie.line = NETSCAPE_HEADER \o <<"s", "\n">>
    /\ HasCookieArg(cmd)
    /\ ~CookieWarned

\* C10: the downloader is only ever started with nothing at the output path,
\* and a success record refers to a file written by this run's downloader.
C10_NoLeftoverReported ==
    /\ dlResult.started => dlResult.pre = "absent"
    /\ SuccessRecords # {} => (fs.kind = "file" /\ fs.origin = "run")

C10_Witness ==
    /\ Done
    /\ preFs = File(1001, "old")
    /\ dlResult.returned
    /\ dlResult.rc = 0
    /\ ~ytdlp.writes
    /\ OneFailureRecord
    /\ fs = Absent

====
